---- MODULE Spec2Model ----
(***************************************************************************)
(* Model of src/app.py: the sales dashboard.  The module-level script      *)
(* reads the sales table, derives the aggregate tables and the four        *)
(* indicator rows, builds the layout and starts serving; afterwards the     *)
(* six callbacks are invoked in any order with any argument.               *)
(*                                                                         *)
(* A DataFrame is a sequence of records; the field `index` is the row      *)
(* label pandas keeps beside the row position.  Quantities are integers    *)
(* (units, prices in whole currency units).                                *)
(***************************************************************************)
EXTENDS Integers, Sequences, FiniteSets

VARIABLES
    sourceFound,   \* whether the data source of line 17 can be fetched
    csv,           \* the rows the data source holds
    pc,            \* position of the program: start, read, aggregated,
                   \* indicators, layout, serving, raised
    raised,        \* the uncaught exception that ended the program, or ""
    stdout,        \* messages the program itself printed
    bound,         \* names of the module-level aggregates assigned so far
    data,
    product_sales,
    ingresos_por_producto,
    ingresos_por_vendedor,
    daily_sales,
    producto_mas_vendido_unidades,
    producto_menos_vendido_unidades,
    producto_mas_ingresos,
    producto_menos_ingresos,
    layout,        \* the seller dropdown of the layout: options and value
    call,          \* the last callback invocation: name and argument
    output         \* what that invocation returned

aggregates == <<product_sales, ingresos_por_producto, ingresos_por_vendedor,
                daily_sales, producto_mas_vendido_unidades,
                producto_menos_vendido_unidades, producto_mas_ingresos,
                producto_menos_ingresos>>

vars == <<sourceFound, csv, pc, raised, stdout, bound, data, aggregates,
          layout, call, output>>

----------------------------------------------------------------------------
(* Bounds of the input tables. *)

MaxRows == 3

Fechas == {"2024-01-01", "2024-01-02"}
Vendedores == {"S1", "S2", "S3"}

\* The sales a table may hold: <<day, product, units sold, unit price>>,
\* each by any seller.
Ventas ==
    { <<"2024-01-01", "P1", 1, 2>>,
      <<"2024-01-01", "P2", 1, 1>>,
      <<"2024-01-02", "P2", 3, 1>> }

CsvRow(f, p, v, u, precio) ==
    [Fecha |-> f, Producto |-> p, Vendedor |-> v,
     Unidades_Vendidas |-> u, Precio |-> precio]

CsvRows ==
    { CsvRow(s[1], s[2], v, s[3], s[4]) : s \in Ventas, v \in Vendedores }

\* The example table of the specification, on any days.
ExampleTables ==
    { << CsvRow(f[1], "P1", "S1", 10, 2), CsvRow(f[2], "P1", "S2", 5, 2),
         CsvRow(f[3], "P2", "S1", 3, 5) >> : f \in [1..3 -> Fechas] }

CsvTables ==
    UNION { [1..n -> CsvRows] : n \in 0..MaxRows } \cup ExampleTables

\* The values the seller callback may be handed: a seller of the store
\* (with or without rows in the table), the empty string, Python's None.
None == "<None>"
Selections == Vendedores \cup {"", None}

----------------------------------------------------------------------------
(* Library operations, as the code uses them. *)

RECURSIVE SumSeq(_)
SumSeq(s) == IF s = <<>> THEN 0 ELSE s[1] + SumSeq(Tail(s))

\* Series.sum() of column col of df
ColSum(df, col) == SumSeq([i \in 1..Len(df) |-> df[i][col]])

\* Lexicographic order of the names that occur, and the order of keys:
\* strings compare lexicographically, timestamps chronologically.
Lexico == <<"P1", "P2", "S1", "S2", "S3">>
KeyOrd(key, k) == IF key = "Fecha" THEN k
                  ELSE CHOOSE i \in 1..Len(Lexico) : Lexico[i] = k

\* pd.to_datetime on the Fecha column: the day the string names
to_datetime(s) ==
    CASE s = "2024-01-01" -> 20240101
      [] s = "2024-01-02" -> 20240102

\* The groups of df.groupby(key): the distinct keys in ascending order
GroupKeys(df, key) ==
    LET K == { df[i][key] : i \in 1..Len(df) }
    IN  [n \in 1..Cardinality(K) |->
            CHOOSE k \in K :
                Cardinality({ j \in K : KeyOrd(key, j) < KeyOrd(key, k) }) = n - 1]

\* Variant of GroupSum: .max() in place of .sum()
GroupMax(df, key, col, k) ==
    LET S == { df[i][col] : i \in { j \in 1..Len(df) : df[j][key] = k } }
    IN  CHOOSE x \in S : \A y \in S : y <= x

\* df.groupby(key)[col].sum() for one group
GroupSum(df, key, col, k) ==
    SumSeq([i \in 1..Len(df) |-> IF df[i][key] = k THEN df[i][col] ELSE 0])

\* df[df[key] == k]: the rows of the group, labels kept
Filter(df, key, k) ==
    LET F[i \in 0..Len(df)] ==
            IF i = 0 THEN <<>>
            ELSE IF df[i][key] = k THEN Append(F[i - 1], df[i])
                 ELSE F[i - 1]
    IN  F[Len(df)]

\* df.sort_values(by=col, ascending=False): rows by col descending, rows of
\* equal col in their previous order (numpy sorts short arrays by
\* insertion); the labels move with the rows
sort_values_desc(df, col) ==
    LET n == Len(df)
        pos(i) == Cardinality({ j \in 1..n : df[j][col] > df[i][col] })
                  + Cardinality({ j \in 1..(i - 1) : df[j][col] = df[i][col] })
                  + 1
    IN  [p \in 1..n |-> df[CHOOSE i \in 1..n : pos(i) = p]]

\* df.reset_index(drop=True): labels 0..n-1 in row order
reset_index(df) ==
    [i \in 1..Len(df) |-> [df[i] EXCEPT !.index = i - 1]]

\* Variant of rank_dense: method='min', the rank after a tie skips
rank_min(df, col, x) ==
    Cardinality({ i \in 1..Len(df) : df[i][col] > x }) + 1

\* Variant of rank_dense: ascending left at its default
rank_dense_ascending(df, col, x) ==
    Cardinality({ df[j][col] : j \in { i \in 1..Len(df) : df[i][col] < x } }) + 1

\* Series.rank(method='dense', ascending=False).astype(int) of one value
rank_dense(df, col, x) ==
    Cardinality({ df[j][col] : j \in { i \in 1..Len(df) : df[i][col] > x } }) + 1

Max(S) == CHOOSE x \in S : \A y \in S : y <= x
Min(S) == CHOOSE x \in S : \A y \in S : x <= y
ColValues(df, col) == { df[i][col] : i \in 1..Len(df) }

\* Series.idxmax() / idxmin(): the label of the first row holding the
\* extreme; the caller raises ValueError on an empty Series
idxmax(df, col) ==
    LET m == Max(ColValues(df, col))
        i == CHOOSE i \in 1..Len(df) :
                 /\ df[i][col] = m
                 /\ \A j \in 1..(i - 1) : df[j][col] # m
    IN  df[i].index

idxmin(df, col) ==
    LET m == Min(ColValues(df, col))
        i == CHOOSE i \in 1..Len(df) :
                 /\ df[i][col] = m
                 /\ \A j \in 1..(i - 1) : df[j][col] # m
    IN  df[i].index

\* Variant of loc: the label used as a position (iloc)
iloc(df, label) == df[label + 1]

\* df.loc[label]: the row carrying the label
loc(df, label) == df[CHOOSE i \in 1..Len(df) : df[i].index = label]

\* x.split()[0]: the product names of the tables hold no whitespace, so
\* the first word is the whole name
FirstWord(x) == x

----------------------------------------------------------------------------
(* Number formatting. *)

DigitChar == <<"0", "1", "2", "3", "4", "5", "6", "7", "8", "9">>

\* str(n) of a natural number, one string per character
RECURSIVE Digits(_)
Digits(n) == IF n < 10 THEN <<DigitChar[n + 1]>>
             ELSE Append(Digits(n \div 10), DigitChar[(n % 10) + 1])

\* f"{n:,.0f}": the digits with a comma between groups of three
FormatComma(n) ==
    LET d == Digits(n)
        G[i \in 0..Len(d)] ==
            IF i = 0 THEN <<>>
            ELSE IF i > 1 /\ (Len(d) - i + 1) % 3 = 0
                 THEN G[i - 1] \o <<",", d[i]>>
                 ELSE Append(G[i - 1], d[i])
    IN  G[Len(d)]

\* s.replace(',', '.')
ReplaceComma(s) == [i \in 1..Len(s) |-> IF s[i] = "," THEN "." ELSE s[i]]

----------------------------------------------------------------------------
(* The load-time pipeline, lines 17-45. *)

\* pd.read_csv: the rows of the source under the labels 0..n-1
read_csv_frame(rows) ==
    [i \in 1..Len(rows) |->
        [index |-> i - 1, Fecha |-> rows[i].Fecha,
         Producto |-> rows[i].Producto, Vendedor |-> rows[i].Vendedor,
         Unidades_Vendidas |-> rows[i].Unidades_Vendidas,
         Precio |-> rows[i].Precio]]

\* Lines 20-21: Fecha parsed, Ingresos = Unidades Vendidas * Precio
Preprocess(df) ==
    [i \in 1..Len(df) |->
        [index |-> df[i].index, Fecha |-> to_datetime(df[i].Fecha),
         Producto |-> df[i].Producto, Vendedor |-> df[i].Vendedor,
         Unidades_Vendidas |-> df[i].Unidades_Vendidas,
         Precio |-> df[i].Precio,
         Ingresos |-> df[i].Unidades_Vendidas * df[i].Precio]]

\* Line 25: groupby('Producto')['Unidades Vendidas'].sum().reset_index()
UnitsByProduct(df) ==
    LET ks == GroupKeys(df, "Producto")
    IN  [n \in 1..Len(ks) |->
            [index |-> n - 1, Producto |-> ks[n],
             Unidades_Vendidas |->
                 GroupSum(df, "Producto", "Unidades_Vendidas", ks[n])]]

\* Lines 28-30: revenue per product, short name, sorted by revenue
RevenueByProduct(df) ==
    LET ks == GroupKeys(df, "Producto")
        g == [n \in 1..Len(ks) |->
                [index |-> n - 1, Producto |-> ks[n],
                 Ingresos |-> GroupSum(df, "Producto", "Ingresos", ks[n]),
                 Producto_Corto |-> FirstWord(ks[n])]]
    IN  sort_values_desc(g, "Ingresos")

\* Lines 33, 176 and 262: groupby(key)['Ingresos'].sum().reset_index()
RevenueBySeller(df) ==
    LET ks == GroupKeys(df, "Vendedor")
    IN  [n \in 1..Len(ks) |->
            [index |-> n - 1, Vendedor |-> ks[n],
             Ingresos |-> GroupSum(df, "Vendedor", "Ingresos", ks[n])]]

\* Lines 33-36: revenue per seller, sorted, with the dense Rank column
RankedSellers(df) ==
    LET g == sort_values_desc(RevenueBySeller(df), "Ingresos")
    IN  [i \in 1..Len(g) |->
            [index |-> g[i].index, Vendedor |-> g[i].Vendedor,
             Ingresos |-> g[i].Ingresos,
             Rank |-> rank_dense(g, "Ingresos", g[i].Ingresos)]]

\* Line 39: groupby('Fecha')[['Unidades Vendidas', 'Ingresos']].sum()
DailySales(df) ==
    LET ks == GroupKeys(df, "Fecha")
    IN  [n \in 1..Len(ks) |->
            [index |-> n - 1, Fecha |-> ks[n],
             Unidades_Vendidas |->
                 GroupSum(df, "Fecha", "Unidades_Vendidas", ks[n]),
             Ingresos |-> GroupSum(df, "Fecha", "Ingresos", ks[n])]]

Init ==
    /\ sourceFound \in BOOLEAN
    /\ csv \in (IF sourceFound THEN CsvTables ELSE {<<>>})
    /\ pc = "start"
    /\ raised = ""
    /\ stdout = <<>>
    /\ bound = {}
    /\ data = <<>>
    /\ product_sales = <<>>
    /\ ingresos_por_producto = <<>>
    /\ ingresos_por_vendedor = <<>>
    /\ daily_sales = <<>>
    /\ producto_mas_vendido_unidades = <<>>
    /\ producto_menos_vendido_unidades = <<>>
    /\ producto_mas_ingresos = <<>>
    /\ producto_menos_ingresos = <<>>
    /\ layout = <<>>
    /\ call = <<>>
    /\ output = <<>>

\* Line 17.  No handler surrounds the call: a source that cannot be
\* fetched raises out of the module and the interpreter exits.
read_csv ==
    /\ pc = "start"
    /\ IF sourceFound
       THEN /\ data' = read_csv_frame(csv)
            /\ bound' = bound \cup {"data"}
            /\ pc' = "read"
            /\ raised' = raised
       ELSE /\ pc' = "raised"
            /\ raised' = "HTTPError"
            /\ UNCHANGED <<data, bound>>
    /\ UNCHANGED <<sourceFound, csv, stdout, aggregates, layout, call, output>>

\* Lines 20-39.
Aggregate ==
    /\ pc = "read"
    /\ LET d == Preprocess(data)
       IN  /\ data' = d
           /\ product_sales' = UnitsByProduct(d)
           /\ ingresos_por_producto' = RevenueByProduct(d)
           /\ ingresos_por_vendedor' = RankedSellers(d)
           /\ daily_sales' = DailySales(d)
    /\ bound' = bound \cup {"product_sales", "ingresos_por_producto",
                             "ingresos_por_vendedor", "daily_sales"}
    /\ pc' = "aggregated"
    /\ UNCHANGED <<sourceFound, csv, raised, stdout,
                   producto_mas_vendido_unidades,
                   producto_menos_vendido_unidades, producto_mas_ingresos,
                   producto_menos_ingresos, layout, call, output>>

\* Lines 42-45.  idxmax of an empty Series raises ValueError at line 42.
Indicators ==
    /\ pc = "aggregated"
    /\ IF product_sales = <<>>
       THEN /\ pc' = "raised"
            /\ raised' = "ValueError"
            /\ UNCHANGED <<bound, producto_mas_vendido_unidades,
                           producto_menos_vendido_unidades,
                           producto_mas_ingresos, producto_menos_ingresos>>
       ELSE /\ producto_mas_vendido_unidades' =
                   loc(product_sales, idxmax(product_sales, "Unidades_Vendidas"))
            /\ producto_menos_vendido_unidades' =
                   loc(product_sales, idxmin(product_sales, "Unidades_Vendidas"))
            /\ producto_mas_ingresos' =
                   loc(ingresos_por_producto,
                       idxmax(ingresos_por_producto, "Ingresos"))
            /\ producto_menos_ingresos' =
                   loc(ingresos_por_producto,
                       idxmin(ingresos_por_producto, "Ingresos"))
            /\ bound' = bound \cup {"producto_mas_vendido_unidades",
                                     "producto_menos_vendido_unidades",
                                     "producto_mas_ingresos",
                                     "producto_menos_ingresos"}
            /\ pc' = "indicators"
            /\ raised' = raised
    /\ UNCHANGED <<sourceFound, csv, stdout, data, product_sales,
                   ingresos_por_producto, ingresos_por_vendedor, daily_sales,
                   layout, call, output>>

\* Lines 52-112: the layout; the dropdown lists the sellers and starts at
\* the first one (iloc[0] raises IndexError when there is none).
Layout ==
    /\ pc = "indicators"
    /\ IF ingresos_por_vendedor = <<>>
       THEN /\ pc' = "raised"
            /\ raised' = "IndexError"
            /\ layout' = layout
       ELSE /\ layout' =
                   [options |-> [i \in 1..Len(ingresos_por_vendedor) |->
                                    ingresos_por_vendedor[i].Vendedor],
                    value |-> ingresos_por_vendedor[1].Vendedor]
            /\ pc' = "layout"
            /\ raised' = raised
    /\ UNCHANGED <<sourceFound, csv, stdout, bound, data, aggregates,
                   call, output>>

\* Line 295.
run_server ==
    /\ pc = "layout"
    /\ pc' = "serving"
    /\ UNCHANGED <<sourceFound, csv, raised, stdout, bound, data, aggregates,
                   layout, call, output>>

----------------------------------------------------------------------------
(* The callbacks, lines 115-292.  A figure is the record of what the chart *)
(* constructor is handed.                                                  *)

Column(df, col) == [i \in 1..Len(df) |-> df[i][col]]

\* Lines 120-130
BarIngresosPorProducto(frame) ==
    [kind |-> "bar", title |-> "Ingresos por Producto",
     x |-> [i \in 1..Len(frame) |-> frame[i].Producto_Corto],
     y |-> Column(frame, "Ingresos")]

\* Lines 137-147
PieIngresosPorVendedor(frame) ==
    [kind |-> "pie", title |-> "Distribucion de Ingresos por Vendedor",
     names |-> Column(frame, "Vendedor"),
     values |-> Column(frame, "Ingresos")]

\* Lines 154-169
LineDailySales(frame) ==
    [kind |-> "scatter", title |-> "Ingresos y Unidades Vendidas Diarias",
     x |-> Column(frame, "Fecha"),
     y |-> Column(frame, "Ingresos"),
     y2 |-> Column(frame, "Unidades_Vendidas")]

\* Line 181: f"#{Rank}<br>${Ingresos:,.0f}".replace(',', '.')
Text_Label(rank, ingresos) ==
    ReplaceComma(<<"#">> \o Digits(rank) \o <<"<br>", "$">>
                 \o FormatComma(ingresos))

\* Lines 176-182: the frame the ranking chart draws.  It is recomputed from
\* data, and Rank is the row position after sorting.
ingresos_por_vendedor_ranked(df) ==
    LET g == reset_index(sort_values_desc(RevenueBySeller(df), "Ingresos"))
    IN  [i \in 1..Len(g) |->
            [index |-> g[i].index, Vendedor |-> g[i].Vendedor,
             Ingresos |-> g[i].Ingresos, Rank |-> g[i].index + 1,
             Text_Label |-> Text_Label(g[i].index + 1, g[i].Ingresos)]]

\* Lines 184-195
BarRanking(frame) ==
    [kind |-> "bar", title |-> "Ranking de Ingresos Totales por Vendedor",
     x |-> Column(frame, "Vendedor"),
     y |-> Column(frame, "Ingresos"),
     text |-> [i \in 1..Len(frame) |-> frame[i].Text_Label]]

\* Lines 202-239: four number indicators, value and product name
Indicator(title, row, col) ==
    [title |-> title, product |-> row.Producto, value |-> row[col]]

IndicatorsFigure(mas_u, menos_u, mas_i, menos_i) ==
    [kind |-> "indicators",
     title |-> "Indicadores Clave de Ventas por Producto",
     traces |->
        << Indicator("Producto Mas Vendido", mas_u, "Unidades_Vendidas"),
           Indicator("Producto Menos Vendido", menos_u, "Unidades_Vendidas"),
           Indicator("Producto con Mas Ingresos", mas_i, "Ingresos"),
           Indicator("Producto con Menos Ingresos", menos_i, "Ingresos") >>]

\* Variant of ingresos_productos_vendedor: the sort by revenue left out
ingresos_productos_vendedor_unsorted(data_vendedor) ==
    LET ks == GroupKeys(data_vendedor, "Producto")
    IN  [n \in 1..Len(ks) |->
            [index |-> n - 1, Producto |-> ks[n],
             Ingresos |-> GroupSum(data_vendedor, "Producto", "Ingresos", ks[n])]]

\* Lines 262-263: the seller's revenue per product, sorted by revenue
ingresos_productos_vendedor(data_vendedor) ==
    LET ks == GroupKeys(data_vendedor, "Producto")
        g == [n \in 1..Len(ks) |->
                [index |-> n - 1, Producto |-> ks[n],
                 Ingresos |-> GroupSum(data_vendedor, "Producto", "Ingresos",
                                       ks[n])]]
    IN  sort_values_desc(g, "Ingresos")

\* Variant of SellerCard: the check of line 252 for an empty selection of
\* rows left out, so the card is drawn over no rows
SellerCardUnguarded(df, selected_seller) ==
    IF selected_seller \in {None, ""}
    THEN [kind |-> "Div",
          children |->
              <<"Seleccione un vendedor para ver su rendimiento.">>]
    ELSE LET data_vendedor == Filter(df, "Vendedor", selected_seller)
             per_seller == RevenueBySeller(df)
         IN  [kind |-> "Graph",
              title |-> <<"Performance de Ventas de ", selected_seller>>,
              value |-> ColSum(data_vendedor, "Ingresos"),
              reference |-> [sum |-> ColSum(per_seller, "Ingresos"),
                             count |-> Len(per_seller)],
              cells |-> [Producto |-> <<>>, Ingresos |-> <<>>]]

\* Lines 246-292.  The mean of line 259 is kept as the pair (sum, count).
SellerCard(df, selected_seller) ==
    IF selected_seller \in {None, ""}
    THEN [kind |-> "Div",
          children |->
              <<"Seleccione un vendedor para ver su rendimiento.">>]
    ELSE LET data_vendedor == Filter(df, "Vendedor", selected_seller)
         IN  IF data_vendedor = <<>>
             THEN [kind |-> "Div",
                   children |->
                       <<"No hay datos disponibles para el vendedor ",
                         selected_seller>>]
             ELSE LET per_seller == RevenueBySeller(df)
                      ipv == ingresos_productos_vendedor(data_vendedor)
                  IN  [kind |-> "Graph",
                       title |-> <<"Performance de Ventas de ",
                                   selected_seller>>,
                       value |-> ColSum(data_vendedor, "Ingresos"),
                       reference |->
                           [sum |-> ColSum(per_seller, "Ingresos"),
                            count |-> Len(per_seller)],
                       cells |->
                           [Producto |-> Column(ipv, "Producto"),
                            Ingresos |->
                                [i \in 1..Len(ipv) |->
                                    <<"$">> \o FormatComma(ipv[i].Ingresos)]]]

Returns(name, arg, fig) ==
    /\ pc = "serving"
    /\ call' = [name |-> name, arg |-> arg]
    /\ output' = fig
    /\ UNCHANGED <<sourceFound, csv, pc, raised, stdout, bound, data,
                   aggregates, layout>>

update_ingresos_por_producto_graph ==
    Returns("update_ingresos_por_producto_graph", "ingresos-por-producto",
            BarIngresosPorProducto(ingresos_por_producto))

update_ingresos_por_vendedor_pie ==
    Returns("update_ingresos_por_vendedor_pie", "ingresos-por-vendedor-pie",
            PieIngresosPorVendedor(ingresos_por_vendedor))

update_daily_sales_line ==
    Returns("update_daily_sales_line", "daily-sales-line",
            LineDailySales(daily_sales))

\* Variant of update_ingresos_por_vendedor_bar: the positional Rank is
\* written into the module-level frame instead of a recomputed copy
update_ingresos_por_vendedor_bar_inplace ==
    /\ pc = "serving"
    /\ call' = [name |-> "update_ingresos_por_vendedor_bar",
                arg |-> "ingresos-por-vendedor-bar"]
    /\ ingresos_por_vendedor' =
           [i \in 1..Len(ingresos_por_vendedor) |->
               [ingresos_por_vendedor[i] EXCEPT !.Rank = i]]
    /\ output' = BarRanking(ingresos_por_vendedor_ranked(data))
    /\ UNCHANGED <<sourceFound, csv, pc, raised, stdout, bound, data,
                   product_sales, ingresos_por_producto, daily_sales,
                   producto_mas_vendido_unidades,
                   producto_menos_vendido_unidades, producto_mas_ingresos,
                   producto_menos_ingresos, layout>>

update_ingresos_por_vendedor_bar ==
    Returns("update_ingresos_por_vendedor_bar", "ingresos-por-vendedor-bar",
            BarRanking(ingresos_por_vendedor_ranked(data)))

update_product_indicators ==
    Returns("update_product_indicators", "product-performance-indicators",
            IndicatorsFigure(producto_mas_vendido_unidades,
                             producto_menos_vendido_unidades,
                             producto_mas_ingresos, producto_menos_ingresos))

update_seller_performance_card ==
    \E selected_seller \in Selections :
        Returns("update_seller_performance_card", selected_seller,
                SellerCard(data, selected_seller))

Next ==
    \/ read_csv
    \/ Aggregate
    \/ Indicators
    \/ Layout
    \/ run_server
    \/ update_ingresos_por_producto_graph
    \/ update_ingresos_por_vendedor_pie
    \/ update_daily_sales_line
    \/ update_ingresos_por_vendedor_bar
    \/ update_product_indicators
    \/ update_seller_performance_card

Spec == Init /\ [][Next]_vars

----------------------------------------------------------------------------
(* Reference quantities, computed from the rows of the source.             *)

RECURSIVE SumIdx(_, _)
SumIdx(I, vals) ==
    IF I = {} THEN 0
    ELSE LET j == CHOOSE j \in I : TRUE
         IN  vals[j] + SumIdx(I \ {j}, vals)

RawIngresos == [i \in 1..Len(csv) |-> csv[i].Unidades_Vendidas * csv[i].Precio]
RawUnidades == [i \in 1..Len(csv) |-> csv[i].Unidades_Vendidas]
AllRows == 1..Len(csv)
RowsOfProduct(p) == { i \in AllRows : csv[i].Producto = p }
RowsOfSeller(v) == { i \in AllRows : csv[i].Vendedor = v }
RowsOfSale(v, p) == RowsOfSeller(v) \cap RowsOfProduct(p)
ProductsIn(I) == { csv[i].Producto : i \in I }
SellersIn(I) == { csv[i].Vendedor : i \in I }

Aggregated == "daily_sales" \in bound
HasIndicators == "producto_menos_ingresos" \in bound
Called(name) == pc = "serving" /\ call # <<>> /\ call.name = name
Indices(df) == 1..Len(df)

----------------------------------------------------------------------------
(* C1: every aggregate computed at load sums to the grand total of the raw *)
(* table: per-product, per-seller and per-day revenue to the raw revenue,  *)
(* per-product and per-day units to the raw units.                         *)
C1_Conservation ==
    Aggregated =>
        /\ ColSum(ingresos_por_producto, "Ingresos") = SumIdx(AllRows, RawIngresos)
        /\ ColSum(ingresos_por_vendedor, "Ingresos") = SumIdx(AllRows, RawIngresos)
        /\ ColSum(daily_sales, "Ingresos") = SumIdx(AllRows, RawIngresos)
        /\ ColSum(product_sales, "Unidades_Vendidas") = SumIdx(AllRows, RawUnidades)
        /\ ColSum(daily_sales, "Unidades_Vendidas") = SumIdx(AllRows, RawUnidades)

\* Three rows, grouped into two products, two days and fewer sellers than rows
C1_Witness ==
    /\ Aggregated
    /\ Len(data) = 3
    /\ Len(product_sales) = 2
    /\ Len(daily_sales) = 2
    /\ Len(ingresos_por_vendedor) = 2

(* C2: the Rank column of the per-seller aggregate is the dense rank by    *)
(* revenue descending: rank 1 is the highest revenue, equal ranks exactly  *)
(* for equal revenues, the ranks used are 1..k for k distinct revenues,    *)
(* and revenue does not increase along the rank order.                     *)
C2_DenseRank ==
    (Aggregated /\ csv # <<>>) =>
        LET t == ingresos_por_vendedor
            top == Max({ SumIdx(RowsOfSeller(v), RawIngresos) :
                           v \in SellersIn(AllRows) })
        IN  /\ \A i \in Indices(t) :
                   t[i].Ingresos = SumIdx(RowsOfSeller(t[i].Vendedor), RawIngresos)
            /\ \A i \in Indices(t) : (t[i].Rank = 1) <=> (t[i].Ingresos = top)
            /\ \A i, j \in Indices(t) :
                   (t[i].Rank = t[j].Rank) <=> (t[i].Ingresos = t[j].Ingresos)
            /\ { t[i].Rank : i \in Indices(t) }
                   = 1..Cardinality({ t[i].Ingresos : i \in Indices(t) })
            /\ \A i, j \in Indices(t) :
                   (t[i].Rank < t[j].Rank) => (t[i].Ingresos > t[j].Ingresos)
            /\ \A i, j \in Indices(t) :
                   (i < j) => (t[i].Rank <= t[j].Rank)

\* Three sellers, two of them tied at the top
C2_Witness ==
    /\ Aggregated
    /\ Len(ingresos_por_vendedor) = 3
    /\ ingresos_por_vendedor[1].Rank = 1
    /\ ingresos_por_vendedor[2].Rank = 1
    /\ ingresos_por_vendedor[3].Rank = 2

(* C3: the seller callback, given a seller without records in the loaded   *)
(* table or an empty / None selection, returns a placeholder message       *)
(* component and raises nothing.                                           *)
C3_PlaceholderForNoRecords ==
    (/\ Called("update_seller_performance_card")
     /\ \/ call.arg \in {None, ""}
        \/ RowsOfSeller(call.arg) = {})
    => /\ output.kind = "Div"
       /\ raised = ""
       /\ pc = "serving"

\* A seller of the store that has no row in a non-empty table is selected
C3_Witness ==
    /\ Called("update_seller_performance_card")
    /\ call.arg \in Vendedores
    /\ RowsOfSeller(call.arg) = {}
    /\ Len(data) = MaxRows
    /\ output.kind = "Div"

(* C4: with an empty input table the load-time pipeline and the layout     *)
(* construction complete rather than fail.                                 *)
C4_EmptyTableLoads ==
    (sourceFound /\ csv = <<>>) => raised = ""

(* C5: when the data source cannot be found the program prints a message   *)
(* and terminates, having computed no aggregate and not serving.           *)
C5_MissingSourcePrintsAndTerminates ==
    (~sourceFound /\ pc # "start") =>
        /\ pc \in {"exited", "raised"}
        /\ bound = {}
        /\ stdout # <<>>

\* What each callback returns for the table d alone
Expected(c, d) ==
    CASE c.name = "update_ingresos_por_producto_graph" ->
            BarIngresosPorProducto(RevenueByProduct(d))
      [] c.name = "update_ingresos_por_vendedor_pie" ->
            PieIngresosPorVendedor(RankedSellers(d))
      [] c.name = "update_daily_sales_line" ->
            LineDailySales(DailySales(d))
      [] c.name = "update_ingresos_por_vendedor_bar" ->
            BarRanking(ingresos_por_vendedor_ranked(d))
      [] c.name = "update_product_indicators" ->
            LET u == UnitsByProduct(d)
                r == RevenueByProduct(d)
            IN  IndicatorsFigure(loc(u, idxmax(u, "Unidades_Vendidas")),
                                 loc(u, idxmin(u, "Unidades_Vendidas")),
                                 loc(r, idxmax(r, "Ingresos")),
                                 loc(r, idxmin(r, "Ingresos")))
      [] c.name = "update_seller_performance_card" ->
            SellerCard(d, c.arg)

(* C6: a callback invocation leaves the loaded table and the load-time     *)
(* aggregates unchanged, and what it returns is determined by its argument *)
(* and the loaded table, whatever ran before.                              *)
C6_CallbacksStateless ==
    /\ [][pc = "serving" => UNCHANGED <<data, aggregates>>]_vars
    /\ []((pc = "serving" /\ call # <<>>) => output = Expected(call, data))

\* The ranking chart has been drawn for two sellers or more
C6_Witness ==
    /\ Called("update_ingresos_por_vendedor_bar")
    /\ Len(output.x) >= 2
    /\ Len(ingresos_por_vendedor) >= 2

(* C7: for the rows (P1,S1,10,2), (P1,S2,5,2), (P2,S1,3,5) the per-product *)
(* revenue is {P1:30, P2:15}, the per-seller revenue {S1:35, S2:10} and    *)
(* the seller ranks {S1:1, S2:2}.                                          *)
C7_Example ==
    (Aggregated /\ csv \in ExampleTables) =>
        /\ { <<ingresos_por_producto[i].Producto,
                ingresos_por_producto[i].Ingresos>> :
                  i \in Indices(ingresos_por_producto) }
              = { <<"P1", 30>>, <<"P2", 15>> }
        /\ Len(ingresos_por_producto) = 2
        /\ { <<ingresos_por_vendedor[i].Vendedor,
                ingresos_por_vendedor[i].Ingresos,
                ingresos_por_vendedor[i].Rank>> :
                  i \in Indices(ingresos_por_vendedor) }
              = { <<"S1", 35, 1>>, <<"S2", 10, 2>> }
        /\ Len(ingresos_por_vendedor) = 2

C7_Witness ==
    /\ Aggregated
    /\ csv \in ExampleTables
    /\ pc = "serving"

(* C8: the rank label the ranking chart shows for each seller is the       *)
(* seller's dense rank, the value of the Rank column computed at load.     *)
C8_BarShowsDenseRank ==
    Called("update_ingresos_por_vendedor_bar") =>
        /\ Len(output.x) = Len(ingresos_por_vendedor)
        /\ \A i \in Indices(output.x) :
               \E j \in Indices(ingresos_por_vendedor) :
                  /\ ingresos_por_vendedor[j].Vendedor = output.x[i]
                  /\ output.text[i] =
                         Text_Label(ingresos_por_vendedor[j].Rank,
                                    ingresos_por_vendedor[j].Ingresos)

(* C9: for a seller with records the card shows that seller's entry of the *)
(* per-seller aggregate as total revenue, and a table of exactly the       *)
(* products the seller sold, by revenue non-increasing, whose revenues sum *)
(* to the total.                                                           *)
C9_SellerCard ==
    (Called("update_seller_performance_card") /\ RowsOfSeller(call.arg) # {}) =>
        LET v == call.arg
            prods == output.cells.Producto
            rev(p) == SumIdx(RowsOfSale(v, p), RawIngresos)
        IN  /\ output.kind = "Graph"
            /\ \E j \in Indices(ingresos_por_vendedor) :
                   /\ ingresos_por_vendedor[j].Vendedor = v
                   /\ ingresos_por_vendedor[j].Ingresos = output.value
            /\ { prods[i] : i \in Indices(prods) } = ProductsIn(RowsOfSeller(v))
            /\ Len(prods) = Cardinality(ProductsIn(RowsOfSeller(v)))
            /\ Len(output.cells.Ingresos) = Len(prods)
            /\ \A i \in Indices(prods) :
                   output.cells.Ingresos[i] = <<"$">> \o FormatComma(rev(prods[i]))
            /\ \A i, j \in Indices(prods) :
                   (i < j) => (rev(prods[i]) >= rev(prods[j]))
            /\ SumSeq([i \in Indices(prods) |-> rev(prods[i])]) = output.value

\* The selected seller sold two products for different revenues
C9_Witness ==
    /\ Called("update_seller_performance_card")
    /\ output.kind = "Graph"
    /\ Len(output.cells.Producto) = 2
    /\ output.cells.Ingresos[1] # output.cells.Ingresos[2]
    /\ Len(ingresos_por_vendedor) >= 2

(* C10: the four indicator rows are true extremes of the per-product       *)
(* aggregates (units, and revenue after its sort by revenue), and the      *)
(* indicator figure shows each selected product with its own aggregate.    *)
C10_IndicatorExtremes ==
    /\ HasIndicators =>
          LET units(p) == SumIdx(RowsOfProduct(p), RawUnidades)
              rev(p) == SumIdx(RowsOfProduct(p), RawIngresos)
              P == ProductsIn(AllRows)
          IN  /\ producto_mas_vendido_unidades.Producto \in P
              /\ producto_menos_vendido_unidades.Producto \in P
              /\ producto_mas_ingresos.Producto \in P
              /\ producto_menos_ingresos.Producto \in P
              /\ producto_mas_vendido_unidades.Unidades_Vendidas
                     = units(producto_mas_vendido_unidades.Producto)
              /\ producto_menos_vendido_unidades.Unidades_Vendidas
                     = units(producto_menos_vendido_unidades.Producto)
              /\ producto_mas_ingresos.Ingresos
                     = rev(producto_mas_ingresos.Producto)
              /\ producto_menos_ingresos.Ingresos
                     = rev(producto_menos_ingresos.Producto)
              /\ \A i \in Indices(product_sales) :
                     /\ producto_mas_vendido_unidades.Unidades_Vendidas
                            >= product_sales[i].Unidades_Vendidas
                     /\ producto_menos_vendido_unidades.Unidades_Vendidas
                            <= product_sales[i].Unidades_Vendidas
              /\ \A i \in Indices(ingresos_por_producto) :
                     /\ producto_mas_ingresos.Ingresos
                            >= ingresos_por_producto[i].Ingresos
                     /\ producto_menos_ingresos.Ingresos
                            <= ingresos_por_producto[i].Ingresos
    /\ Called("update_product_indicators") =>
          /\ output.traces[1].product = producto_mas_vendido_unidades.Producto
          /\ output.traces[1].value
                 = producto_mas_vendido_unidades.Unidades_Vendidas
          /\ output.traces[2].product = producto_menos_vendido_unidades.Producto
          /\ output.traces[2].value
                 = producto_menos_vendido_unidades.Unidades_Vendidas
          /\ output.traces[3].product = producto_mas_ingresos.Producto
          /\ output.traces[3].value = producto_mas_ingresos.Ingresos
          /\ output.traces[4].product = producto_menos_ingresos.Producto
          /\ output.traces[4].value = producto_menos_ingresos.Ingresos

\* The indicators are shown for a table whose second product in name order
\* earns the most, so the revenue aggregate was reordered by its sort
C10_Witness ==
    /\ Called("update_product_indicators")
    /\ Len(ingresos_por_producto) = 2
    /\ ingresos_por_producto[1].index = 1
    /\ producto_mas_ingresos.Ingresos > producto_menos_ingresos.Ingresos
    /\ producto_mas_vendido_unidades.Unidades_Vendidas
           > producto_menos_vendido_unidades.Unidades_Vendidas

====
